---- MODULE Spec2Model ----
(***************************************************************************)
(* Model of the two entry points of lstm-vision:                           *)
(*   - src/lstm_vision/run.py : main() and run(), one OS process per rank, *)
(*     optionally coordinated through a DDP process group;                 *)
(*   - src/mnist-lstm/run.py  : the single-process training script.        *)
(* Spec / FairSpec describe the first program, SpecMnist the second.       *)
(***************************************************************************)
EXTENDS Integers, Sequences, FiniteSets, TLC

\* ------------------------------------------------------------------ bounds
\* lstm_vision: processes launched, cfg.training.num_epochs
MaxProcs == 2
MaxEpochs == 1
\* mnist-lstm: args.num_epochs, len(train_loader), len(val_loader), loss values
MaxMnistEpochs == 2
MaxTrainBatches == 2
MaxValBatches == 2
MaxLoss == 2

\* --------------------------------------------------------------- constants
\* Python's None for string-valued names (timestamps, file names)
None == "None"
\* an optional value: Unset is Python's None, Some(x) a value that is present
Unset == <<>>
Some(x) == <<x>>
\* a rank is an int (a GPU index) or torch.device("cpu")
IntRank(n) == [device |-> FALSE, index |-> n]
CPU == [device |-> TRUE, index |-> 0]
\* values dt.now().strftime(...) can return in different processes
Timestamps == {"ts_a", "ts_b"}
\* cfg.training.batch_size of the configuration
ConfigBatchSize == 4
\* cfg.training.seed_number when it is set
ConfigSeed == 7

Procs == 1..MaxProcs

VARIABLES
    cfg,      \* the hydra configuration handed to main() (same for every process)
    env,      \* WORLD_SIZE, CUDA availability, number of processes launched
    proc,     \* per process: position in main()/run() and its locals
    files,    \* saving_path: checkpoint file name (by timestamp) -> content
    arrived,  \* processes that have entered dist.barrier()
    m         \* state of the mnist-lstm script

vars == <<cfg, env, proc, files, arrived, m>>

\* ------------------------------------------------------- lstm_vision/run.py

\* the processes the launcher started: WORLD_SIZE of them, one when unset
Launched == 1..env.nprocs

\* int(os.getenv("RANK", 0)) of process p: the launcher numbers them from 0
EnvRank(p) == IF env.WORLD_SIZE = Unset THEN 0 ELSE p - 1

\* int(os.getenv("WORLD_SIZE", 1))
EnvWorldSize == IF env.WORLD_SIZE = Unset THEN 1 ELSE env.WORLD_SIZE[1]

\* rank in [0, torch.device("cpu")]
IsMainRank(r) == r = IntRank(0) \/ r = CPU

\* rank == torch.device("cpu")
IsCpu(r) == r = CPU

ProcInit ==
    [pc |-> "main", rank |-> IntRank(0), world_size |-> 0, use_ddp |-> FALSE,
     batch_size |-> ConfigBatchSize, seed |-> Unset, timestamp |-> None,
     argTimestamp |-> None, argSavingName |-> Unset, epochsDone |-> 0,
     modelState |-> [src |-> "fresh", epoch |-> 0],
     warnedSingle |-> FALSE, warnedFallback |-> FALSE, setupCalls |-> 0, divided |-> FALSE, built |-> FALSE,
     keyChecks |-> 0, initLoaded |-> FALSE, trainSteps |-> 0, writes |-> 0,
     passedBarrier |-> FALSE, readsBest |-> 0,
     cleanupCalls |-> 0, lateCollective |-> FALSE,
     evalTrainOn |-> Unset, evalTestOn |-> Unset, faultAt |-> None]

\* --- main(), lines 257-290

\* lines 268-273: DDP requested but WORLD_SIZE is 1: the flag is switched off
DowngradedFlag(flag, ws) == IF flag /\ ws = 1 THEN FALSE ELSE flag

\* (mutant) the world size is not looked at
DistributedBranchFlagOnly(flag, ws) == flag

\* line 275: the branch that runs run() with the rank of the environment
DistributedBranch(flag, ws) == flag /\ ws > 1

\* line 278: rank = 0 if torch.cuda.is_available() else torch.device("cpu")
FallbackRank == IF env.cuda THEN IntRank(0) ELSE CPU

\* lines 279-283: the condition of the second warning
SecondWarning(flag) ==
    flag \/ cfg.master_addr # None \/ cfg.master_port # None

Main(p) ==
    /\ proc[p].pc = "main"
    /\ LET ws    == EnvWorldSize
           warn1 == cfg.use_ddp /\ ws = 1
           flag  == DowngradedFlag(cfg.use_ddp, ws)
           dist  == DistributedBranch(flag, ws)
           warn2 == ~dist /\ SecondWarning(flag)
       IN proc' = [proc EXCEPT
                ![p].pc = "seed",
                ![p].world_size = ws,
                ![p].rank = IF dist THEN IntRank(EnvRank(p)) ELSE FallbackRank,
                ![p].use_ddp = IF dist THEN flag ELSE FALSE,
                ![p].warnedSingle = warn1,
                ![p].warnedFallback = warn2]
    /\ UNCHANGED <<cfg, env, files, arrived, m>>

\* --- run(), lines 30-253

\* a step of run() that raises: the process ends there
Raise(p, at) == [proc EXCEPT ![p].pc = "fault", ![p].faultAt = at]

\* int + rank and rank > 0 raise TypeError when rank is a torch.device
IntOpRaises(r) == r.device

\* lines 43-44: torch.manual_seed(cfg.training.seed_number + rank)
Seed(p) ==
    /\ proc[p].pc = "seed"
    /\ proc' = IF cfg.seed_number = Unset
               THEN [proc EXCEPT ![p].pc = "setup"]
               ELSE IF IntOpRaises(proc[p].rank)
               THEN Raise(p, "TypeError:seed_number+rank")
               ELSE [proc EXCEPT ![p].pc = "setup",
                       ![p].seed = Some(cfg.seed_number[1] + proc[p].rank.index)]
    /\ UNCHANGED <<cfg, env, files, arrived, m>>

\* lines 46-57: divide the batch size and join the process group
Setup(p) ==
    /\ proc[p].pc = "setup"
    /\ proc' = IF proc[p].use_ddp /\ proc[p].world_size = 0
               THEN Raise(p, "ZeroDivisionError:batch_size/world_size")
               ELSE IF proc[p].use_ddp
               THEN [proc EXCEPT ![p].pc = "build",
                       ![p].batch_size = proc[p].batch_size \div proc[p].world_size,
                       ![p].divided = TRUE,
                       ![p].setupCalls = @ + 1]
               ELSE [proc EXCEPT ![p].pc = "build"]
    /\ UNCHANGED <<cfg, env, files, arrived, m>>

\* line 105: f"lstm_best_cp_{timestamp}.pt"
saving_name_best_cp(timestamp) == <<"lstm_best_cp_", timestamp, ".pt">>

\* lines 59-105: datasets, loaders, model, then this process's own timestamp
Build(p) ==
    /\ proc[p].pc = "build"
    /\ \E now \in Timestamps :
          proc' = [proc EXCEPT ![p].pc = "check", ![p].built = TRUE,
                     ![p].timestamp = now]
    /\ UNCHANGED <<cfg, env, files, arrived, m>>

\* utils.check_config_keys: a fatal check of the configuration's keys
check_config_keys_raises == ~cfg.keys_ok

\* (mutant) the key check is left out
CheckKeysLeftOut(p) ==
    /\ proc[p].pc = "check"
    /\ proc' = [proc EXCEPT ![p].pc = "optim"]
    /\ UNCHANGED <<cfg, env, files, arrived, m>>

\* lines 108-141: only rank 0 or the CPU process checks the keys
CheckKeys(p) ==
    /\ proc[p].pc = "check"
    /\ proc' = IF ~IsMainRank(proc[p].rank)
               THEN [proc EXCEPT ![p].pc = "optim"]
               ELSE IF check_config_keys_raises
               THEN [Raise(p, "check_config_keys") EXCEPT ![p].keyChecks = @ + 1]
               ELSE [proc EXCEPT ![p].pc = "optim", ![p].keyChecks = @ + 1]
    /\ UNCHANGED <<cfg, env, files, arrived, m>>

\* lines 143-167: optimizer, train mode, checkpoint of cfg.model.loading_path
LoadInitial(p) ==
    /\ proc[p].pc = "optim"
    /\ proc' = IF cfg.loading_path # None
               THEN [proc EXCEPT ![p].pc = "train_call", ![p].initLoaded = TRUE,
                       ![p].modelState = [src |-> "loading_path", epoch |-> 0]]
               ELSE [proc EXCEPT ![p].pc = "train_call"]
    /\ UNCHANGED <<cfg, env, files, arrived, m>>

\* line 181: timestamp=None if rank > 0 else timestamp
TimestampArg(r, timestamp) == IF r.index > 0 THEN None ELSE timestamp

\* (mutant) every rank is handed the saving name
SavingNameArgAllRanks(r, name) == name

\* line 184: saving_name_best_cp=None if rank > 0 else saving_name_best_cp
SavingNameArg(r, name) == IF r.index > 0 THEN Unset ELSE name

\* lines 169-190: the call of train_and_validate and its arguments
TrainCall(p) ==
    /\ proc[p].pc = "train_call"
    /\ proc' = IF ~(cfg.num_epochs > 0)
               THEN [proc EXCEPT ![p].pc = "train_acc"]
               ELSE IF IntOpRaises(proc[p].rank)
               THEN Raise(p, "TypeError:rank>0")
               ELSE [proc EXCEPT ![p].pc = "training",
                       ![p].argTimestamp =
                           TimestampArg(proc[p].rank, proc[p].timestamp),
                       ![p].argSavingName =
                           SavingNameArg(proc[p].rank,
                                         saving_name_best_cp(proc[p].timestamp))]
    /\ UNCHANGED <<cfg, env, files, arrived, m>>

\* --- train.train_and_validate, as run() uses it

\* positions of run() after train_and_validate has returned
AfterTraining ==
    {"barrier", "in_barrier", "load_best", "train_acc", "cleanup", "test_eval",
     "done"}

\* DDP's gradient all-reduce: an epoch of p completes only with every peer in it
PeersInEpoch(p) ==
    \A q \in Launched \ {p} :
        \/ proc[q].pc = "training" /\ proc[q].epochsDone >= proc[p].epochsDone
        \/ proc[q].pc \in AfterTraining

\* one epoch of training and validation; a new minimum of the validation loss
\* is saved by the process that was given a saving name
TrainEpoch(p) ==
    /\ proc[p].pc = "training"
    /\ proc[p].epochsDone < cfg.num_epochs
    /\ proc[p].use_ddp => PeersInEpoch(p)
    /\ \E newMin \in BOOLEAN :
          LET epoch == proc[p].epochsDone + 1
              saves == (newMin \/ epoch = 1) /\ proc[p].argSavingName # Unset
          IN /\ newMin \/ proc[p].argSavingName # Unset
             /\ proc' = [proc EXCEPT
                    ![p].pc = IF epoch = cfg.num_epochs THEN "barrier"
                              ELSE "training",
                    ![p].epochsDone = epoch,
                    ![p].trainSteps = @ + 1,
                    ![p].modelState = [src |-> "trained", epoch |-> epoch],
                    ![p].writes = IF saves THEN @ + 1 ELSE @]
             /\ files' = IF saves
                         THEN [files EXCEPT ![proc[p].argSavingName] = Some(epoch)]
                         ELSE files
    /\ UNCHANGED <<cfg, env, arrived, m>>

\* --- run(), lines 192-253

\* line 196: if cfg.training.use_ddp: dist.barrier()
BarrierNeeded(p) == proc[p].use_ddp

\* lines 196-197: enter the barrier (or go on without one)
Barrier(p) ==
    /\ proc[p].pc = "barrier"
    /\ IF BarrierNeeded(p)
       THEN /\ proc' = [proc EXCEPT ![p].pc = "in_barrier"]
            /\ arrived' = arrived \cup {p}
       ELSE /\ proc' = [proc EXCEPT ![p].pc = "load_best"]
            /\ arrived' = arrived
    /\ UNCHANGED <<cfg, env, files, m>>

\* dist.barrier() returns once every process of the group has entered it
BarrierPass(p) ==
    /\ proc[p].pc = "in_barrier"
    /\ \A q \in Launched : q \in arrived
    /\ proc' = [proc EXCEPT ![p].pc = "load_best", ![p].passedBarrier = TRUE]
    /\ UNCHANGED <<cfg, env, files, arrived, m>>

\* line 205: os.path.join(cfg.training.saving_path, saving_name_best_cp)
LoadPath(p) == saving_name_best_cp(proc[p].timestamp)

\* lines 198-208: torch.load of the best checkpoint, restored into the model
LoadBest(p) ==
    /\ proc[p].pc = "load_best"
    /\ proc' = IF files[LoadPath(p)] = Unset
               THEN Raise(p, "FileNotFoundError:best_cp")
               ELSE [proc EXCEPT ![p].pc = "train_acc",
                       ![p].readsBest = @ + 1,
                       ![p].modelState =
                           [src |-> "best_cp", epoch |-> files[LoadPath(p)][1]]]
    /\ UNCHANGED <<cfg, env, files, arrived, m>>

\* evaluate.check_accuracy with use_ddp: the counts are reduced over the group,
\* so the call completes only with every peer in it
PeersInTrainAcc(p) ==
    \A q \in Launched \ {p} :
        proc[q].pc \in {"train_acc", "cleanup", "test_eval", "done"}

\* lines 210-218: accuracy on the train set, with use_ddp=cfg.training.use_ddp
TrainAcc(p) ==
    /\ proc[p].pc = "train_acc"
    /\ proc[p].use_ddp => PeersInTrainAcc(p)
    /\ proc' = [proc EXCEPT ![p].pc = "cleanup",
                  ![p].evalTrainOn = Some(proc[p].modelState)]
    /\ UNCHANGED <<cfg, env, files, arrived, m>>

\* (mutant) only rank 0 destroys the process group
CleanupNeededRankZero(p) == proc[p].use_ddp /\ proc[p].rank = IntRank(0)

\* line 221: if cfg.training.use_ddp: cleanup()
CleanupNeeded(p) == proc[p].use_ddp

\* lines 220-222: destroy the process group
Cleanup(p) ==
    /\ proc[p].pc = "cleanup"
    /\ proc' = IF CleanupNeeded(p)
               THEN [proc EXCEPT ![p].pc = "test_eval", ![p].cleanupCalls = @ + 1]
               ELSE [proc EXCEPT ![p].pc = "test_eval"]
    /\ UNCHANGED <<cfg, env, files, arrived, m>>

\* line 232: use_ddp=False in the test-set check_accuracy
TestAccUseDDP(p) == FALSE

\* lines 224-253: test accuracy and confusion matrix, rank 0 or CPU only
TestEval(p) ==
    /\ proc[p].pc = "test_eval"
    /\ proc' = IF IsMainRank(proc[p].rank)
               THEN [proc EXCEPT ![p].pc = "done",
                       ![p].evalTestOn = Some(proc[p].modelState),
                       ![p].lateCollective =
                           TestAccUseDDP(p) /\ proc[p].cleanupCalls > 0]
               ELSE [proc EXCEPT ![p].pc = "done"]
    /\ UNCHANGED <<cfg, env, files, arrived, m>>

\* --- the program: every launched process runs main()

FileNames == {saving_name_best_cp(t) : t \in Timestamps}

MnistIdle == [pc |-> "idle"]

Init ==
    /\ cfg \in [use_ddp : BOOLEAN, num_epochs : 0..MaxEpochs,
                seed_number : {Unset, Some(ConfigSeed)},
                loading_path : {None, "loading_path"},
                master_addr : {None, "addr"}, master_port : {None},
                keys_ok : BOOLEAN]
    /\ \E ws \in {Unset} \cup {Some(n) : n \in 0..MaxProcs}, cuda \in BOOLEAN :
          env = [WORLD_SIZE |-> ws, cuda |-> cuda,
                 nprocs |-> IF ws = Unset \/ ws = Some(0) THEN 1 ELSE ws[1]]
    /\ proc = [p \in Procs |->
                 IF p \in 1..env.nprocs THEN ProcInit
                 ELSE [ProcInit EXCEPT !.pc = "absent"]]
    /\ files = [n \in FileNames |-> Unset]
    /\ arrived = {}
    /\ m = MnistIdle

ProcNext(p) ==
    \/ Main(p)
    \/ Seed(p)
    \/ Setup(p)
    \/ Build(p)
    \/ CheckKeys(p)
    \/ LoadInitial(p)
    \/ TrainCall(p)
    \/ TrainEpoch(p)
    \/ Barrier(p)
    \/ BarrierPass(p)
    \/ LoadBest(p)
    \/ TrainAcc(p)
    \/ Cleanup(p)
    \/ TestEval(p)

Next == \E p \in Procs : ProcNext(p)

Spec == Init /\ [][Next]_vars

\* every launched process is an OS process of its own and keeps running
\* so in a run launched with the flag on and WORLD_SIZE > 1:
DistributedInit == Init /\ cfg.use_ddp /\ EnvWorldSize > 1

FairSpec ==
    DistributedInit /\ [][Next]_vars /\ \A p \in Procs : WF_vars(ProcNext(p))

\* --------------------------------------------------------- mnist-lstm/run.py

\* the per-batch validation losses cce_sum can return
Losses == 1..MaxLoss

RECURSIVE SumSeq(_)
\* np.sum(valLoss_perEpoch, axis=0)
SumSeq(q) == IF q = <<>> THEN 0 ELSE q[1] + SumSeq(Tail(q))

\* the other program does not run
VisionIdle ==
    /\ cfg = [use_ddp |-> FALSE, num_epochs |-> 0, seed_number |-> Unset,
              loading_path |-> None, master_addr |-> None, master_port |-> None,
              keys_ok |-> TRUE]
    /\ env = [WORLD_SIZE |-> Unset, cuda |-> FALSE, nprocs |-> 0]
    /\ proc = [p \in Procs |-> [ProcInit EXCEPT !.pc = "absent"]]
    /\ files = [n \in FileNames |-> Unset]
    /\ arrived = {}

\* lines 30-127: the state when the epoch loop is reached
MInit ==
    /\ VisionIdle
    /\ \E ne \in 0..MaxMnistEpochs, nt \in 1..MaxTrainBatches,
          nv \in 1..MaxValBatches, lc \in BOOLEAN :
          m = [pc |-> "epoch_loop", num_epochs |-> ne, nTrain |-> nt,
               nVal |-> nv, load_cp |-> lc,
               epoch |-> 0, batch_idx |-> 0, val_batch_idx |-> 0,
               model |-> [loaded |-> lc, steps |-> 0],
               batchOps |-> <<>>, optSteps |-> 0, valStarts |-> 0,
               min_val_loss |-> Unset, checkpoint |-> Unset,
               valLoss_perEpoch |-> <<>>, val_losses |-> <<>>,
               saved |-> Unset, evalTrainOn |-> Unset, evalTestOn |-> Unset,
               confusionOn |-> Unset, faultAt |-> None]

\* line 129: for epoch in range(args.num_epochs)
EpochsLeft(epoch, num_epochs) == epoch < num_epochs

\* lines 129-132 and 244: next epoch, or leave the loop
EpochLoop ==
    /\ m.pc = "epoch_loop"
    /\ m' = IF EpochsLeft(m.epoch, m.num_epochs)
            THEN [m EXCEPT !.pc = "batch_loop", !.batch_idx = 0,
                           !.valLoss_perEpoch = <<>>]
            ELSE [m EXCEPT !.pc = "save"]
    /\ UNCHANGED <<cfg, env, proc, files, arrived>>

\* lines 134-137: next training batch: model.train(), optimizer.zero_grad()
ZeroGrad ==
    /\ m.pc = "batch_loop"
    /\ m.batch_idx < m.nTrain
    /\ m' = [m EXCEPT !.pc = "forward", !.batchOps = <<"zero_grad">>]
    /\ UNCHANGED <<cfg, env, proc, files, arrived>>

\* lines 139-145: forward pass and loss under autocast
Forward ==
    /\ m.pc = "forward"
    /\ m' = [m EXCEPT !.pc = "backward",
                      !.batchOps = @ \o <<"forward", "loss">>]
    /\ UNCHANGED <<cfg, env, proc, files, arrived>>

\* line 147: scaler.scale(loss).backward()
Backward ==
    /\ m.pc = "backward"
    /\ m' = [m EXCEPT !.pc = "step", !.batchOps = Append(@, "backward")]
    /\ UNCHANGED <<cfg, env, proc, files, arrived>>

\* (mutant) optimizer.step() is called besides scaler.step(optimizer)
ScalerStepTwice(mm) ==
    [mm EXCEPT !.batchOps = Append(@, "step"), !.optSteps = @ + 2,
               !.model.steps = @ + 2]

\* line 148: scaler.step(optimizer), which changes the model's parameters
ScalerStep(mm) ==
    [mm EXCEPT !.batchOps = Append(@, "step"), !.optSteps = @ + 1,
               !.model.steps = @ + 1]

Step ==
    /\ m.pc = "step"
    /\ m' = [ScalerStep(m) EXCEPT !.pc = "update"]
    /\ UNCHANGED <<cfg, env, proc, files, arrived>>

\* lines 149-170: scaler.update(), the batch's statistics, the progress line
Update ==
    /\ m.pc = "update"
    /\ m' = [m EXCEPT !.pc = "batch_loop", !.batchOps = Append(@, "update"),
                      !.batch_idx = @ + 1]
    /\ UNCHANGED <<cfg, env, proc, files, arrived>>

\* lines 172-174: the training batches are exhausted: validation starts
StartValidation ==
    /\ m.pc = "batch_loop"
    /\ m.batch_idx = m.nTrain
    /\ m' = [m EXCEPT !.pc = "val_loop", !.val_batch_idx = 0,
                      !.valStarts = @ + 1]
    /\ UNCHANGED <<cfg, env, proc, files, arrived>>

\* line 204: val_loss < min_val_loss, with min_val_loss = float("inf") at first
NewMinimum(val_loss, min_val_loss) ==
    min_val_loss = Unset \/ val_loss < min_val_loss[1]

\* lines 176-225: one validation batch; a batch loss below the minimum seen
\* snapshots the model and the optimizer
ValBatch ==
    /\ m.pc = "val_loop"
    /\ m.val_batch_idx < m.nVal
    /\ \E val_loss \in Losses :
          m' = IF NewMinimum(val_loss, m.min_val_loss)
               THEN [m EXCEPT !.valLoss_perEpoch = Append(@, val_loss),
                              !.val_batch_idx = @ + 1,
                              !.min_val_loss = Some(val_loss),
                              !.checkpoint =
                                  Some([state_dict |-> m.model,
                                        epoch |-> m.epoch])]
               ELSE [m EXCEPT !.valLoss_perEpoch = Append(@, val_loss),
                              !.val_batch_idx = @ + 1]
    /\ UNCHANGED <<cfg, env, proc, files, arrived>>

\* lines 227-243: the epoch's averaged losses and accuracies
EpochEnd ==
    /\ m.pc = "val_loop"
    /\ m.val_batch_idx = m.nVal
    /\ m' = [m EXCEPT !.pc = "epoch_loop", !.epoch = @ + 1,
                      !.val_losses = Append(@, SumSeq(m.valLoss_perEpoch))]
    /\ UNCHANGED <<cfg, env, proc, files, arrived>>

\* lines 248-256: save_checkpoint(state=checkpoint, ...); the name checkpoint
\* is bound only by line 206
Save ==
    /\ m.pc = "save"
    /\ m' = IF m.checkpoint = Unset
            THEN [m EXCEPT !.pc = "fault", !.faultAt = "NameError:checkpoint"]
            ELSE [m EXCEPT !.pc = "eval", !.saved = m.checkpoint]
    /\ UNCHANGED <<cfg, env, proc, files, arrived>>

\* lines 257-259: check_accuracy(train_loader, model), (test_loader, model)
Eval ==
    /\ m.pc = "eval"
    /\ m' = [m EXCEPT !.pc = "plots", !.evalTrainOn = Some(m.model),
                      !.evalTestOn = Some(m.model)]
    /\ UNCHANGED <<cfg, env, proc, files, arrived>>

\* lines 261-267: loss and accuracy plots, confusion matrix of model
Plots ==
    /\ m.pc = "plots"
    /\ m' = [m EXCEPT !.pc = "done", !.confusionOn = Some(m.model)]
    /\ UNCHANGED <<cfg, env, proc, files, arrived>>

MNext ==
    \/ EpochLoop
    \/ ZeroGrad
    \/ Forward
    \/ Backward
    \/ Step
    \/ Update
    \/ StartValidation
    \/ ValBatch
    \/ EpochEnd
    \/ Save
    \/ Eval
    \/ Plots

SpecMnist == MInit /\ [][MNext]_vars

\* ------------------------------------------------------------------ claims

\* process p has left main() and is in run()
Entered(p) == proc[p].pc \notin {"absent", "main"}

AnyFault == \E p \in Procs : proc[p].pc = "fault"

Writers == {p \in Procs : proc[p].writes > 0}

\* the process that runs as rank 0 of a distributed run
IsRankZero(p) == Entered(p) /\ proc[p].rank = IntRank(0)

RECURSIVE MinSeq(_)
MinSeq(q) ==
    IF Len(q) = 1 THEN q[1]
    ELSE LET r == MinSeq(Tail(q)) IN IF q[1] < r THEN q[1] ELSE r

MnistFinished == m.pc \in {"eval", "plots", "done"}

\* C1 (as claimed): once the checkpoint is saved (mnist-lstm, num_epochs >= 1),
\* it is the snapshot of the epoch whose validation loss over the whole
\* validation set is the minimum over all epochs.
C1_SavedIsBestEpoch ==
    (MnistFinished /\ m.num_epochs >= 1) =>
        m.val_losses[m.saved[1].epoch + 1] = MinSeq(m.val_losses)

C3_SamePathAfterBarrier ==
    \A p, q \in Procs :
        (proc[p].use_ddp /\ proc[p].passedBarrier /\ IsRankZero(q)) =>
            /\ LoadPath(p) = proc[q].argSavingName
            /\ files[LoadPath(p)] # Unset
            /\ proc[p].faultAt # "FileNotFoundError:best_cp"

\* C4: run() is entered with the distributed flag on only if world_size > 1;
\* for world_size <= 1 no process group is set up and the batch size is not
\* divided; with the flag on and WORLD_SIZE 1, main() warns, switches the flag
\* off and calls run() as a single process.
C4_DowngradeToSingle ==
    \A p \in Procs :
        Entered(p) =>
            /\ proc[p].use_ddp => proc[p].world_size > 1
            /\ proc[p].world_size <= 1 =>
                  /\ proc[p].setupCalls = 0
                  /\ ~proc[p].divided
                  /\ proc[p].batch_size = ConfigBatchSize
            /\ (cfg.use_ddp /\ proc[p].world_size = 1) =>
                  /\ proc[p].warnedSingle
                  /\ ~proc[p].use_ddp
                  /\ IsMainRank(proc[p].rank)

\* flag on, WORLD_SIZE 1: the process has trained and finished
C4_Witness ==
    \E p \in Procs :
        /\ cfg.use_ddp /\ proc[p].world_size = 1 /\ proc[p].warnedSingle
        /\ proc[p].pc = "done" /\ proc[p].trainSteps > 0

\* C5 (as claimed): with num_epochs = 0 (mnist-lstm) the loop body is never
\* entered, nothing is saved, and the run goes on to evaluation without fault.
C5_ZeroEpochsReachEvaluation ==
    (m.pc # "idle" /\ m.num_epochs = 0) =>
        /\ m.optSteps = 0 /\ m.valStarts = 0
        /\ m.saved = Unset
        /\ m.faultAt = None

\* C6 (as claimed): after training with num_epochs > 0 the accuracy checks and
\* the confusion matrix (mnist-lstm) are computed on the state of the best
\* checkpoint.
C6_EvaluatedOnBestSnapshot ==
    (MnistFinished /\ m.num_epochs > 0) =>
        /\ m.evalTrainOn # Unset => m.evalTrainOn[1] = m.saved[1].state_dict
        /\ m.evalTestOn # Unset => m.evalTestOn[1] = m.saved[1].state_dict
        /\ m.confusionOn # Unset => m.confusionOn[1] = m.saved[1].state_dict

\* C7 (as claimed): a process run with rank = torch.device("cpu") never ends in
\* an error of using the device where an integer rank is expected.
C7_CpuRankAccepted ==
    \A p \in Procs :
        (Entered(p) /\ IsCpu(proc[p].rank)) =>
            proc[p].faultAt \notin {"TypeError:seed_number+rank",
                                    "TypeError:rank>0"}

PastCheck(p) ==
    \/ proc[p].pc \in {"optim", "train_call", "training"} \cup AfterTraining
    \/ proc[p].faultAt \in {"check_config_keys", "TypeError:rank>0",
                            "FileNotFoundError:best_cp"}

\* C8 (as claimed): the key check runs once per run, before process-group
\* setup, dataset/loader/model construction, checkpoint load and training, and
\* when it fails no process trains or writes.
C8_CheckedFirst ==
    /\ Cardinality({p \in Procs : proc[p].keyChecks > 0}) <= 1
    /\ \A p \in Procs : proc[p].keyChecks <= 1
    /\ \A p \in Procs :
          (proc[p].setupCalls > 0 \/ proc[p].built \/ proc[p].initLoaded
              \/ proc[p].trainSteps > 0) =>
             \E q \in Procs : proc[q].keyChecks = 1
    /\ ~cfg.keys_ok =>
          \A p \in Procs : proc[p].trainSteps = 0 /\ proc[p].writes = 0

\* C8 (amended): each process with rank 0 or the CPU device checks the keys
\* once, ranks > 0 never; the check comes after setup and the construction of
\* datasets, loaders and model, and before checkpoint load and training; when
\* it fails, the checking process loads and trains nothing and no process
\* writes a checkpoint.
C8_CheckedBeforeTraining ==
    \A p \in Procs :
        Entered(p) =>
            /\ proc[p].keyChecks <= 1
            /\ ~IsMainRank(proc[p].rank) => proc[p].keyChecks = 0
            /\ (IsMainRank(proc[p].rank) /\ PastCheck(p)) =>
                  proc[p].keyChecks = 1
            /\ proc[p].keyChecks = 1 =>
                  /\ proc[p].built
                  /\ proc[p].use_ddp => proc[p].setupCalls = 1
            /\ (proc[p].keyChecks = 0 /\ IsMainRank(proc[p].rank)) =>
                  ~proc[p].initLoaded /\ proc[p].trainSteps = 0
            /\ ~cfg.keys_ok =>
                  /\ proc[p].writes = 0
                  /\ IsMainRank(proc[p].rank) =>
                        ~proc[p].initLoaded /\ proc[p].trainSteps = 0

\* the check has failed in rank 0 of a distributed run, after setup and build
C8_Witness ==
    \E p \in Procs :
        /\ proc[p].faultAt = "check_config_keys" /\ proc[p].keyChecks = 1
        /\ proc[p].setupCalls = 1 /\ proc[p].built

\* C9: in a distributed run every rank that set the process group up tears it
\* down exactly once, after the train-accuracy check, unless some process
\* faults; once a rank is in the barrier all ranks get there; the steps after
\* cleanup request no collective operation.
C9_TeardownOnce ==
    /\ [](\A p \in Procs :
            /\ proc[p].cleanupCalls <= 1
            /\ proc[p].cleanupCalls = 1 =>
                  proc[p].setupCalls = 1 /\ proc[p].evalTrainOn # Unset
            /\ ~proc[p].lateCollective)
    /\ \A p \in Procs :
          (proc[p].setupCalls = 1) ~> (proc[p].cleanupCalls = 1 \/ AnyFault)
    /\ (arrived # {}) ~> (arrived = Launched \/ AnyFault)

\* every rank of a distributed run with training has finished, torn down once
C9_Witness ==
    /\ env.nprocs >= 2 /\ cfg.num_epochs > 0 /\ ~AnyFault
    /\ \A p \in Launched :
          proc[p].pc = "done" /\ proc[p].use_ddp /\ proc[p].cleanupCalls = 1
             /\ proc[p].passedBarrier

BatchOpsClaimed ==
    <<"zero_grad", "forward", "loss", "backward", "clip_grad_norm", "step",
      "update">>

BatchOpsOfCode == <<"zero_grad", "forward", "loss", "backward", "step", "update">>

\* one optimizer step per batch, validation after the last training batch of
\* the epoch, exactly num_epochs epochs
LoopShape ==
    /\ m.pc = "batch_loop" => m.optSteps = m.epoch * m.nTrain + m.batch_idx
    /\ m.pc = "val_loop" =>
          /\ m.batch_idx = m.nTrain
          /\ m.valStarts = m.epoch + 1
          /\ m.optSteps = (m.epoch + 1) * m.nTrain
    /\ m.pc \in {"save", "eval", "plots", "done", "fault"} =>
          /\ m.epoch = m.num_epochs
          /\ m.valStarts = m.num_epochs
          /\ m.optSteps = m.num_epochs * m.nTrain

\* C10 (as claimed): every training batch runs zero gradients, forward, loss,
\* backward, clip gradient norm, optimizer step, scaler update, in this order,
\* with the loop shape above.
C10_BatchOrderWithClip ==
    m.pc # "idle" =>
        /\ (m.pc = "batch_loop" /\ m.batch_idx > 0) => m.batchOps = BatchOpsClaimed
        /\ LoopShape

\* C10 (amended): the same without a gradient-norm clipping step.
C10_BatchOrderNoClip ==
    m.pc # "idle" =>
        /\ (m.pc = "batch_loop" /\ m.batch_idx > 0) => m.batchOps = BatchOpsOfCode
        /\ LoopShape

\* two epochs of two batches each have run to the end
C10_Witness ==
    /\ m.pc = "done" /\ m.num_epochs = 2 /\ m.nTrain = 2
    /\ m.optSteps = 4 /\ m.batchOps = BatchOpsOfCode

====
